---- MODULE Spec2Model ----
(***************************************************************************)
(* DuckMailClient (src/core/duckmail_client.py): the session holder, the   *)
(* account provisioner, the authenticator and the inbox poller, together   *)
(* with the mail provider they talk to.                                    *)
(*                                                                         *)
(* Encoding of Python values.  None is the empty tuple.  A string is a     *)
(* tuple whose shape tells what it is: <<"">> the empty string,            *)
(* <<"t", k, "@", d>> a generated address, <<"Pwd", k>> a generated        *)
(* password, <<"tok", e>> a bearer token issued for address e, <<"num", e>>*)
(* a token field that is a truthy JSON number instead of a string.         *)
(* Return values are strings: "True", "False", "None", a code token, or    *)
(* "Raise" when an exception leaves the method.                            *)
(***************************************************************************)
EXTENDS Integers, Sequences, FiniteSets, TLC

VARIABLES
    email, password, account_id, token,   \* the client's session fields
    accounts,                             \* provider: the addresses that are registered
    pc,                                   \* position of the caller: "idle", or inside poll_for_code
    poll,                                 \* locals of the running poll_for_code call
    op, ret, loginOut,                    \* the last public call, its result, its nested login
    reg,                                  \* "True"/"False": result of the register_account call that
                                          \* generated the session's credentials; "none" otherwise
    stats,                                \* the last poll_for_code call: its arguments, what it did,
                                          \* what the listing of its last cycle offered
    everLoginTrue,                        \* some login() of this client has returned True
    probeIn, probeOut                     \* inputs and outcome of the one call under test

vars == <<email, password, account_id, token, accounts, pc, poll, op, ret,
          loginOut, reg, stats, everLoginTrue, probeIn, probeOut>>

\* ------------------------------------------------------------------ bounds
NumRand == 1          \* distinct (timestamp suffix, random string) draws
MaxTimeout == 3       \* poll_for_code timeout argument, 0..MaxTimeout
MaxInterval == 2      \* poll_for_code interval argument, 0..MaxInterval
MaxMsgs == 2          \* messages in one GET /messages listing

\* ------------------------------------------------------------------ values
None == <<>>
EmptyStr == <<"">>

\* `not x' of line 103 and line 128: None and the empty string are falsy.
Truthy(v) == v # None /\ v # EmptyStr

FallbackDomain == "virgilian.com"
ListedDomain == "mail.example"

\* f"t{timestamp}{rand}@{domain}" and f"Pwd{rand}{timestamp}": k stands for
\* the (timestamp, rand) pair, which both strings share.
Email(k, d) == <<"t", k, "@", d>>
Password(k) == <<"Pwd", k>>

Emails == {Email(k, d) : k \in 1..NumRand, d \in {FallbackDomain, ListedDomain}}
Passwords == {Password(k) : k \in 1..NumRand}

\* The password the provider holds for a registered address.
PasswordOf(e) == Password(e[2])

\* ---------------------------------------------------------- HTTP exchanges
\* What _request gives its caller: an exception (exc), or a response with a
\* status and a body.  made: the provider acted on the request.
Exc(made) == [exc |-> TRUE, made |-> made, status |-> 0, body |-> "none"]
Resp(status, body, made) == [exc |-> FALSE, made |-> made, status |-> status, body |-> body]

\* GET /domains
DomainResponses ==
    {Exc(FALSE), Resp(500, "none", FALSE), Resp(200, "badjson", FALSE),
     Resp(200, "empty", FALSE), Resp(200, "nodomain", FALSE),
     Resp(200, "domain", FALSE)}

\* POST /accounts.  A provider creates an address once: it answers 200/201
\* (made) only for an address that does not exist yet.  An exception after
\* the provider acted is a response lost on the way back.
RegisterResponses(exists) ==
    {Exc(FALSE), Resp(422, "error", FALSE)}
    \cup (IF exists THEN {}
          ELSE {Exc(TRUE)} \cup
               {Resp(s, b, TRUE) : s \in {200, 201}, b \in {"id", "empty", "badjson"}})

\* POST /token.  A token is issued only for a registered address with its
\* password; the other answers can come at any time.
LoginResponses(valid) ==
    {Exc(FALSE), Resp(401, "error", FALSE),
     Resp(200, "notoken", FALSE), Resp(200, "empty", FALSE), Resp(200, "badjson", FALSE)}
    \cup (IF valid THEN {Resp(200, "token", TRUE), Resp(200, "numtoken", TRUE)} ELSE {})

Valid(e, p) == e \in accounts /\ p = PasswordOf(e)

\* ------------------------------------------------------------ _get_domain
\* Without the try of line 226: an exception of _request leaves the method.
GetDomain_Unguarded(r) ==
    IF r.exc THEN "Raise"
    ELSE IF r.status = 200 /\ r.body = "domain" THEN ListedDomain
    ELSE FallbackDomain

\* lines 225-236: the first listed domain, the fallback on any failure.
GetDomain(r) ==
    IF ~r.exc /\ r.status = 200 /\ r.body = "domain" THEN ListedDomain
    ELSE FallbackDomain

\* What line 73 can get, over the answers to GET /domains.
DiscoveredDomains == {GetDomain(r) : r \in DomainResponses}

\* lines 72-73: the domain of the caller, or the discovered one when the
\* caller gave none.
ResolveDomain(dom, dr) == IF dom = "" THEN GetDomain(dr) ELSE dom

\* ------------------------------------------------------------------ login
\* Returning early only when both credentials are missing.
LoginCall_BothMissing(e, p, tok, r) ==
    IF ~Truthy(e) /\ ~Truthy(p) THEN [ret |-> FALSE, token |-> tok, sent |-> FALSE]
    ELSE IF r.exc THEN [ret |-> FALSE, token |-> tok, sent |-> TRUE]
    ELSE IF r.status # 200 THEN [ret |-> FALSE, token |-> tok, sent |-> TRUE]
    ELSE IF r.body = "badjson" THEN [ret |-> FALSE, token |-> tok, sent |-> TRUE]
    ELSE IF r.body = "token" THEN [ret |-> TRUE, token |-> <<"tok", e>>, sent |-> TRUE]
    ELSE IF r.body = "numtoken" THEN [ret |-> FALSE, token |-> <<"num", e>>, sent |-> TRUE]
    ELSE [ret |-> FALSE, token |-> tok, sent |-> TRUE]

\* login() on session (e, p, tok) with the provider's answer r:
\* [ret, token, sent].  sent: POST /token was issued.
LoginCall(e, p, tok, r) ==
    IF ~Truthy(e) \/ ~Truthy(p) THEN [ret |-> FALSE, token |-> tok, sent |-> FALSE]
    ELSE IF r.exc THEN [ret |-> FALSE, token |-> tok, sent |-> TRUE]
    ELSE IF r.status # 200 THEN [ret |-> FALSE, token |-> tok, sent |-> TRUE]
    ELSE IF r.body = "badjson" THEN [ret |-> FALSE, token |-> tok, sent |-> TRUE]
    ELSE IF r.body = "token" THEN [ret |-> TRUE, token |-> <<"tok", e>>, sent |-> TRUE]
    \* line 116 stores the token, then line 117 slices it for the log: a
    \* number cannot be sliced, the TypeError is caught at line 119.
    ELSE IF r.body = "numtoken" THEN [ret |-> FALSE, token |-> <<"num", e>>, sent |-> TRUE]
    ELSE [ret |-> FALSE, token |-> tok, sent |-> TRUE]

Bool(b) == IF b THEN "True" ELSE "False"

\* How a login() call ended, as the caller and the provider saw it: "True",
\* "Unsent" (False at line 104, before any request), "Refused" (False
\* because the provider answered 401 to credentials it does not hold),
\* "False" (any other failure).
LoginOutcome(lg, r, valid) ==
    IF lg.ret THEN "True"
    ELSE IF ~lg.sent THEN "Unsent"
    ELSE IF lg.sent /\ ~r.exc /\ r.status = 401 /\ ~valid THEN "Refused"
    ELSE "False"

\* ------------------------------------------------------------ the inbox
\* Message bodies are sequences of tokens: "w" is any word, "c1" and "c2"
\* are verification codes.
CodeTokens == {"c1", "c2"}

\* extract_verification_code (core.mail_utils): the first code in the text,
\* "None" when there is none.
RECURSIVE Extract(_)
Extract(content) ==
    IF content = <<>> THEN "None"
    ELSE IF Head(content) \in CodeTokens THEN Head(content)
    ELSE Extract(Tail(content))

\* "".join(str(item) for item in parts)
RECURSIVE Join(_)
Join(parts) == IF parts = <<>> THEN <<>> ELSE Head(parts) \o Join(Tail(parts))

\* A text or html field of a message detail: None, <<"str", s>> or
\* <<"list", <<s1, ..., sn>>>>.  Lines 181-187: `or ""', then lists joined.
FieldText(f) ==
    IF Len(f) = 0 THEN <<>>
    ELSE IF f[1] = "list" THEN Join(f[2])
    ELSE f[2]

\* html before text.
Content_HtmlFirst(detail) == FieldText(detail.html) \o FieldText(detail.text)

\* line 189
Content(detail) == FieldText(detail.text) \o FieldText(detail.html)

\* A createdAt of a listing: None (absent), <<"bad">> (not an ISO
\* timestamp), or <<sec, frac>>, a UTC time of sec whole seconds and the
\* fraction digits frac.  Fractions of 0, 3, 6 or more than 6 digits are the
\* ones every fromisoformat accepts once cut to 6.
MicroDigits == 6

\* re.sub(r'(\.\d{6})\d+', r'\1', created_at)
TruncateFraction(frac) ==
    IF Len(frac) > MicroDigits THEN SubSeq(frac, 1, MicroDigits) ELSE frac

RECURSIVE Pow10(_)
Pow10(n) == IF n = 0 THEN 1 ELSE 10 * Pow10(n - 1)

\* The microseconds fromisoformat reads from at most 6 fraction digits.
RECURSIVE Micros(_, _)
Micros(frac, i) ==
    IF i > Len(frac) THEN 0
    ELSE frac[i] * Pow10(MicroDigits - i) + Micros(frac, i + 1)

\* line 165: parse, convert UTC to the local zone (tz seconds east), drop
\* the zone.  In microseconds.
MsgTime(created_at, tz) ==
    (created_at[1] + tz) * Pow10(MicroDigits)
        + Micros(TruncateFraction(created_at[2]), 1)

\* The comparison turned round.
Stale_Reversed(msg_time, since_time) == msg_time > since_time

\* line 166
Stale(msg_time, since_time) == msg_time < since_time

\* Taking a detail answer other than 200 for fatal too.
DetailFatal_Non200(kind) == kind \in {"exc", "badjson", "status"}

\* The detail answers that end the call at line 197: an exception of
\* _request (line 169) or a body that is not JSON (line 178).  Any other
\* status than 200 is skipped at lines 175-176.
DetailFatal(kind) == kind \in {"exc", "badjson"}

\* lines 151-195, the loop over the listing from message i on, req the
\* messages whose detail was requested so far: [code, src, requested].
\* An exception inside the loop ends the call at line 197 with None.
RECURSIVE ScanFrom(_, _, _, _, _)
ScanFrom(msgs, i, since, tz, req) ==
    IF i > Len(msgs) THEN [code |-> "None", src |-> 0, requested |-> req]
    ELSE LET m == msgs[i] IN
        IF ~m.hasId THEN ScanFrom(msgs, i + 1, since, tz, req)
        ELSE IF Len(since) > 0 /\ Len(m.createdAt) = 1
            THEN [code |-> "None", src |-> 0, requested |-> req]
        ELSE IF Len(since) > 0 /\ Len(m.createdAt) = 2
                /\ Stale(MsgTime(m.createdAt, tz), since[1])
            THEN ScanFrom(msgs, i + 1, since, tz, req)
        ELSE IF DetailFatal(m.detail.kind)
            THEN [code |-> "None", src |-> 0, requested |-> req \cup {i}]
        ELSE IF m.detail.kind = "status"
            THEN ScanFrom(msgs, i + 1, since, tz, req \cup {i})
        ELSE LET code == Extract(Content(m.detail)) IN
            IF code # "None"
            THEN [code |-> code, src |-> i, requested |-> req \cup {i}]
            ELSE ScanFrom(msgs, i + 1, since, tz, req \cup {i})

\* Leaving the loop after the first message of the listing.
ScanInbox_FirstOnly(list, since, tz) ==
    IF list.kind # "ok" THEN [code |-> "None", src |-> 0, requested |-> {}]
    ELSE ScanFrom(IF list.msgs = <<>> THEN <<>> ELSE <<list.msgs[1]>>,
                  1, since, tz, {})

\* lines 132-199: GET /messages answered by list, then the loop.
ScanInbox(list, since, tz) ==
    IF list.kind # "ok" THEN [code |-> "None", src |-> 0, requested |-> {}]
    ELSE ScanFrom(list.msgs, 1, since, tz, {})

\* Dropping the token when a call with a token comes back empty-handed.
FetchCall_DropsToken(e, p, tok, r, scan) ==
    LET lg == LoginCall(e, p, tok, r) IN
    IF ~Truthy(tok) /\ ~lg.ret
    THEN [code |-> "None", token |-> lg.token, login |-> "False",
          listed |-> FALSE, src |-> 0, requested |-> {}]
    ELSE [code |-> scan.code,
          token |-> IF ~Truthy(tok) THEN lg.token
                    ELSE IF scan.code = "None" THEN None ELSE tok,
          login |-> IF Truthy(tok) THEN "no" ELSE "True",
          listed |-> TRUE, src |-> scan.src, requested |-> scan.requested]

\* fetch_verification_code on session (e, p, tok); r answers the login it
\* may make, scan is what lines 132-199 give:
\* [code, token, login, listed, src, requested].
FetchCall(e, p, tok, r, scan) ==
    LET lg == LoginCall(e, p, tok, r) IN
    IF ~Truthy(tok) /\ ~lg.ret
    THEN [code |-> "None", token |-> lg.token, login |-> "False",
          listed |-> FALSE, src |-> 0, requested |-> {}]
    ELSE [code |-> scan.code,
          token |-> IF Truthy(tok) THEN tok ELSE lg.token,
          login |-> IF Truthy(tok) THEN "no" ELSE "True",
          listed |-> TRUE, src |-> scan.src, requested |-> scan.requested]

\* ------------------------------------------------------ inputs of the inbox
Fractions == {<<>>, <<1, 2, 3, 4, 5, 6, 7, 8, 9>>}
CreatedAts == {None, <<"bad">>} \cup {<<s, f>> : s \in {0, 1}, f \in Fractions}
SinceTimes == {None, <<123457>>, <<1000000>>}
TzOffsets == {0, 1}

Str(s) == <<"str", s>>
List(parts) == <<"list", parts>>
Detail(kind, text, html) == [kind |-> kind, text |-> text, html |-> html]
Details ==
    {Detail("exc", None, None), Detail("status", None, None),
     Detail("badjson", None, None), Detail("ok", None, None),
     Detail("ok", List(<< <<"w">>, <<"c1">> >>), Str(<<"c2">>)),
     Detail("ok", Str(<<"w">>), Str(<<"w", "c2">>))}

Messages ==
    {[hasId |-> TRUE, createdAt |-> c, detail |-> d] : c \in CreatedAts, d \in Details}
    \cup {[hasId |-> FALSE, createdAt |-> None,
           detail |-> Detail("ok", Str(<<"c1">>), None)]}

RECURSIVE SeqsUpTo(_, _)
SeqsUpTo(S, n) ==
    IF n = 0 THEN {<<>>}
    ELSE LET shorter == SeqsUpTo(S, n - 1) IN
         shorter \cup {Append(q, x) : q \in shorter, x \in S}

Listing(kind, msgs) == [kind |-> kind, msgs |-> msgs]
ListResponses ==
    {Listing("exc", <<>>), Listing("status", <<>>), Listing("badjson", <<>>)}
    \cup {Listing("ok", q) : q \in SeqsUpTo(Messages, MaxMsgs)}

\* Message m as a caller with since_time since in zone tz sees it.
\* MsgParses: its createdAt is absent or an ISO timestamp, or there is no
\* since_time to compare it with.  MsgOld: it was created before since_time.
\* MsgOffersCode: it has an id, is not older than since_time, and its
\* detail is a 200 whose text and html hold a code.
MsgParses(m, since) == ~(Len(since) > 0 /\ Len(m.createdAt) = 1)

MsgOld(m, since, tz) ==
    /\ Len(since) > 0 /\ Len(m.createdAt) = 2
    /\ MsgTime(m.createdAt, tz) < since[1]

MsgOffersCode(m, since, tz) ==
    /\ m.hasId /\ MsgParses(m, since) /\ ~MsgOld(m, since, tz)
    /\ m.detail.kind = "ok"
    /\ Extract(FieldText(m.detail.text) \o FieldText(m.detail.html)) # "None"

\* The three, for every message, since_time and zone.
MsgViews ==
    [m \in Messages, s \in SinceTimes, z \in TzOffsets |->
        [parses |-> MsgParses(m, s), old |-> MsgOld(m, s, z),
         offers |-> MsgOffersCode(m, s, z)]]

\* What the messages of a listing offer from message i on, every message
\* with an id before them having had a createdAt that line 165 can read
\* (readable) or not.  "readable": a message offers a code, and every
\* detail the loop would ask for before it is a 200 that parses;
\* "offered": the same behind a createdAt that line 165 cannot read;
\* "none": no message does.
RECURSIVE OfferFrom(_, _, _, _, _)
OfferFrom(msgs, i, since, tz, readable) ==
    IF i > Len(msgs) THEN "none"
    ELSE LET m == msgs[i]
             v == MsgViews[m, since, tz]
         IN IF v.offers THEN (IF readable THEN "readable" ELSE "offered")
            ELSE IF m.hasId /\ ~v.old /\ m.detail.kind # "ok" THEN "none"
            ELSE OfferFrom(msgs, i + 1, since, tz,
                           readable /\ (m.hasId => v.parses))

\* The same for an answer to GET /messages: only a 200 with a listing
\* offers anything.
Offer(list, since, tz) ==
    IF list.kind # "ok" THEN "none" ELSE OfferFrom(list.msgs, 1, since, tz, TRUE)

\* The answers to GET /messages that the cycles of a client meet: the
\* listings of messages without a createdAt, with one that is no timestamp,
\* with one of a whole second.
CycleMessages ==
    {m \in Messages : m.createdAt \in {None, <<"bad">>, <<0, <<>>>>, <<1, <<>>>>}}

CycleResponses ==
    {l \in ListResponses : \A j \in 1..Len(l.msgs) : l.msgs[j] \in CycleMessages}

\* What one fetch cycle can meet, for each since_time and zone: the code it
\* comes back with and what the listing offered.
ScanOutcomes ==
    [s \in SinceTimes, z \in TzOffsets |->
        {[code |-> ScanInbox(l, s, z).code, offer |-> Offer(l, s, z)]
            : l \in CycleResponses}]

\* The codes one fetch cycle can come back with, for each since_time and zone.
ScanCodes ==
    [s \in SinceTimes, z \in TzOffsets |->
        {o.code : o \in ScanOutcomes[s, z]}]

\* The same over every since_time and zone a caller can pass.
FetchCodes == UNION {ScanCodes[s, z] : s \in SinceTimes, z \in TzOffsets}

\* ------------------------------------------------------------------- state
NoPoll == [since |-> None, tz |-> 0, max_retries |-> 0, i |-> 0]
NoStats == [T |-> 0, I |-> 0, hadToken |-> FALSE, cycles |-> 0, sleeps |-> 0,
            listings |-> 0, timeouts |-> 0, offer |-> "none"]
NoProbeIn == [list |-> Listing("exc", <<>>), since |-> None, tz |-> 0]
NoProbeOut == [run |-> FALSE, code |-> "None", src |-> 0, requested |-> {}]

Init ==
    /\ email = None /\ password = None /\ account_id = None /\ token = None
    /\ accounts = {}
    /\ pc = "idle" /\ poll = NoPoll
    /\ op = "init" /\ ret = "None" /\ loginOut = "no"
    /\ reg = "none"
    /\ stats = NoStats
    /\ everLoginTrue = FALSE
    /\ probeIn = NoProbeIn /\ probeOut = NoProbeOut

\* ---------------------------------------------------------- set_credentials
\* Storing the address only.
SetCredentials_EmailOnly ==
    /\ pc = "idle"
    /\ \E e \in Emails \cup {EmptyStr} : email' = e
    /\ op' = "set_credentials" /\ ret' = "None" /\ loginOut' = "no"
    /\ reg' = "none" /\ stats' = NoStats
    /\ UNCHANGED <<password, account_id, token, accounts, pc, poll,
                   everLoginTrue, probeIn, probeOut>>

SetCredentials ==
    /\ pc = "idle"
    /\ \E e \in Emails \cup {EmptyStr}, p \in Passwords \cup {EmptyStr} :
        /\ email' = e
        /\ password' = p
    /\ op' = "set_credentials" /\ ret' = "None" /\ loginOut' = "no"
    /\ reg' = "none" /\ stats' = NoStats
    /\ UNCHANGED <<account_id, token, accounts, pc, poll, everLoginTrue,
                   probeIn, probeOut>>

\* --------------------------------------------------------- register_account
\* Taking any answer of the provider for a success.
RegisterResult_AnyStatus(r, e, old_id) ==
    IF r.exc THEN [ret |-> FALSE, account_id |-> old_id]
    ELSE IF r.body = "badjson" THEN [ret |-> FALSE, account_id |-> old_id]
    ELSE [ret |-> TRUE,
          account_id |-> IF r.body = "id" THEN <<"id", e>> ELSE None]

\* Taking a 200/201 without content for a failure.
RegisterResult_EmptyFails(r, e, old_id) ==
    IF r.exc THEN [ret |-> FALSE, account_id |-> old_id]
    ELSE IF r.status \in {200, 201} THEN
        IF r.body \in {"badjson", "empty"} THEN [ret |-> FALSE, account_id |-> old_id]
        ELSE [ret |-> TRUE,
              account_id |-> IF r.body = "id" THEN <<"id", e>> ELSE None]
    ELSE [ret |-> FALSE, account_id |-> old_id]

\* lines 83-99 for the generated address e: [ret, account_id].
RegisterResult(r, e, old_id) ==
    IF r.exc THEN [ret |-> FALSE, account_id |-> old_id]
    ELSE IF r.status \in {200, 201} THEN
        IF r.body = "badjson" THEN [ret |-> FALSE, account_id |-> old_id]
        ELSE [ret |-> TRUE,
              account_id |-> IF r.body = "id" THEN <<"id", e>> ELSE None]
    ELSE [ret |-> FALSE, account_id |-> old_id]

\* Storing the generated pair only when the registration succeeded.
RegisterCall_StoreOnSuccess(d, k, r, old) ==
    LET e == Email(k, d)
        res == RegisterResult(r, e, old.account_id)
    IN [email |-> IF res.ret THEN e ELSE old.email,
        password |-> IF res.ret THEN Password(k) ELSE old.password,
        account_id |-> res.account_id, ret |-> Bool(res.ret), posted |-> TRUE]

\* lines 74-99 on session old = [email, password, account_id], for domain d,
\* the (timestamp, rand) draw k and the answer r to POST /accounts:
\* [email, password, account_id, ret, posted].  Line 73 is outside the try
\* of line 83: an exception of _get_domain would leave the method before
\* anything is generated or sent.
RegisterCall(d, k, r, old) ==
    IF d = "Raise"
    THEN [email |-> old.email, password |-> old.password,
          account_id |-> old.account_id, ret |-> "Raise", posted |-> FALSE]
    ELSE LET e == Email(k, d)
             res == RegisterResult(r, e, old.account_id)
         IN [email |-> e, password |-> Password(k),
             account_id |-> res.account_id, ret |-> Bool(res.ret),
             posted |-> TRUE]

\* The domains lines 72-73 can end with, over the domain arguments of the
\* callers (none, or the listed domain) and the answers to GET /domains.
RegisterDomains ==
    UNION {IF dom = "" THEN DiscoveredDomains ELSE {dom} : dom \in {"", ListedDomain}}

\* The session before a call, as register_account finds it.
Session == [email |-> email, password |-> password, account_id |-> account_id]

\* What a register_account call for domain d, draw k and answer r does to
\* the client and the provider.
RegisterUpdate(d, k, r) ==
    LET c == RegisterCall(d, k, r, Session) IN
    /\ email' = c.email
    /\ password' = c.password
    /\ account_id' = c.account_id
    /\ accounts' = IF c.posted /\ r.made THEN accounts \cup {Email(k, d)}
                   ELSE accounts
    /\ ret' = c.ret
    /\ reg' = IF c.ret = "Raise" THEN reg ELSE c.ret
    /\ op' = "register" /\ loginOut' = "no" /\ stats' = NoStats
    /\ UNCHANGED <<token, pc, poll, everLoginTrue>>

RegisterAccount ==
    /\ pc = "idle"
    /\ \E d \in RegisterDomains, k \in 1..NumRand :
       \E r \in RegisterResponses(Email(k, d) \in accounts) :
            RegisterUpdate(d, k, r)
    /\ UNCHANGED <<probeIn, probeOut>>

\* -------------------------------------------------------------------- login
Login ==
    /\ pc = "idle"
    /\ \E r \in LoginResponses(Valid(email, password)) :
        LET res == LoginCall(email, password, token, r) IN
        /\ token' = res.token
        /\ ret' = Bool(res.ret)
        /\ loginOut' = LoginOutcome(res, r, Valid(email, password))
        /\ everLoginTrue' = (everLoginTrue \/ res.ret)
    /\ op' = "login" /\ stats' = NoStats
    /\ UNCHANGED <<email, password, account_id, accounts, pc, poll, reg,
                   probeIn, probeOut>>

\* The answers to the login a call makes when the session has no token.
NestedLoginResponses ==
    IF Truthy(token) THEN {Exc(FALSE)} ELSE LoginResponses(Valid(email, password))

\* -------------------------------------------------- fetch_verification_code
FetchVerificationCode ==
    /\ pc = "idle"
    /\ \E r \in NestedLoginResponses, c \in FetchCodes :
        LET res == FetchCall(email, password, token, r,
                             [code |-> c, src |-> 0, requested |-> {}]) IN
        /\ token' = res.token
        /\ ret' = res.code
        /\ loginOut' = res.login
        /\ everLoginTrue' = (everLoginTrue \/ res.login = "True")
    /\ op' = "fetch" /\ stats' = NoStats
    /\ UNCHANGED <<email, password, account_id, accounts, pc, poll, reg,
                   probeIn, probeOut>>

\* ------------------------------------------------------------ poll_for_code
\* Rounding the attempts up instead of down.
MaxRetries_RoundUp(T, I) == (T + I - 1) \div I

\* line 212
MaxRetries(T, I) == T \div I

\* Sleeping after the last attempt too.
SleepsAfter_Always(i, max_retries) == i <= max_retries

\* line 219
SleepsAfter(i, max_retries) == i < max_retries

\* Logging the timeout only when the loop has run.
LogTimeout_OnlyAfterAttempts(st) ==
    [st EXCEPT !.timeouts = @ + (IF st.cycles > 0 THEN 1 ELSE 0)]

\* line 222
LogTimeout(st) == [st EXCEPT !.timeouts = @ + 1]

\* Going on to the loop whatever the login gave.
LoginGate_Ignored(had, ok) == TRUE

\* lines 208-210: the call goes on when the session had a token or the
\* login it made returned True.
LoginGate(had, ok) == had \/ ok

\* The arguments of a call: timeout, interval, since_time, and the zone of
\* the host during the call.
PollArgs ==
    [T : 0..MaxTimeout, I : 0..MaxInterval, since : SinceTimes, tz : TzOffsets]

\* lines 208-212 and, when the loop has nothing to do, lines 222-223, for
\* arguments drawn from Args.
PollStartWith(Args) ==
    /\ pc = "idle"
    /\ \E a \in Args, r \in NestedLoginResponses :
        LET lg == LoginCall(email, password, token, r)
            had == Truthy(token)
            st == [NoStats EXCEPT !.T = a.T, !.I = a.I, !.hadToken = had]
        IN
        /\ token' = IF had THEN token ELSE lg.token
        /\ loginOut' = IF had THEN "no" ELSE Bool(lg.ret)
        /\ everLoginTrue' = (everLoginTrue \/ (~had /\ lg.ret))
        /\ IF ~LoginGate(had, lg.ret)
           THEN pc' = "idle" /\ ret' = "None" /\ poll' = NoPoll /\ stats' = st
           ELSE IF a.I = 0
           \* timeout // interval raises ZeroDivisionError
           THEN pc' = "idle" /\ ret' = "Raise" /\ poll' = NoPoll /\ stats' = st
           ELSE IF MaxRetries(a.T, a.I) < 1
           THEN /\ pc' = "idle" /\ ret' = "None" /\ poll' = NoPoll
                /\ stats' = LogTimeout(st)
           ELSE /\ pc' = "attempt" /\ ret' = "Running"
                /\ poll' = [since |-> a.since, tz |-> a.tz,
                            max_retries |-> MaxRetries(a.T, a.I), i |-> 1]
                /\ stats' = st
    /\ op' = "poll"
    /\ UNCHANGED <<email, password, account_id, accounts, reg, probeIn, probeOut>>

PollStart == PollStartWith(PollArgs)

\* lines 215-219, then the next turn of the loop at line 214 or, when the
\* range is used up, lines 222-223.
PollAttempt ==
    /\ pc = "attempt"
    /\ \E r \in NestedLoginResponses, o \in ScanOutcomes[poll.since, poll.tz] :
        LET res == FetchCall(email, password, token, r,
                             [code |-> o.code, src |-> 0, requested |-> {}])
            st == [stats EXCEPT !.cycles = @ + 1,
                                !.listings = @ + (IF res.listed THEN 1 ELSE 0),
                                !.offer = IF res.listed THEN o.offer ELSE "none"]
        IN
        /\ token' = res.token
        /\ everLoginTrue' = (everLoginTrue \/ res.login = "True")
        /\ loginOut' = IF res.login = "no" THEN loginOut ELSE res.login
        /\ IF res.code # "None"
           THEN pc' = "idle" /\ ret' = res.code /\ poll' = NoPoll /\ stats' = st
           ELSE IF SleepsAfter(poll.i, poll.max_retries)
           THEN pc' = "sleep" /\ ret' = ret /\ poll' = poll /\ stats' = st
           ELSE IF poll.i < poll.max_retries
           THEN /\ pc' = "attempt" /\ ret' = ret /\ stats' = st
                /\ poll' = [poll EXCEPT !.i = @ + 1]
           ELSE /\ pc' = "idle" /\ ret' = "None" /\ poll' = NoPoll
                /\ stats' = LogTimeout(st)
    /\ UNCHANGED <<email, password, account_id, accounts, op, reg, probeIn, probeOut>>

\* line 220, then the next turn of the loop at line 214, or lines 222-223
\* when the range is used up.
PollSleep ==
    /\ pc = "sleep"
    /\ LET st == [stats EXCEPT !.sleeps = @ + 1] IN
       IF poll.i < poll.max_retries
       THEN /\ pc' = "attempt" /\ ret' = ret /\ stats' = st
            /\ poll' = [poll EXCEPT !.i = @ + 1]
       ELSE /\ pc' = "idle" /\ ret' = "None" /\ poll' = NoPoll
            /\ stats' = LogTimeout(st)
    /\ UNCHANGED <<email, password, account_id, token, accounts, op,
                   loginOut, reg, everLoginTrue, probeIn, probeOut>>

\* ------------------------------------------------------------- the client
\* Every public method, called in any order.  poll_for_code is called here
\* with the arguments that give each of its paths: no attempt, one attempt,
\* several attempts, a zero interval.
ClientPollArgs ==
    {a \in PollArgs : /\ <<a.T, a.I>> \in {<<0, 1>>, <<2, 2>>, <<2, 1>>, <<2, 0>>}
                      /\ a.since = None /\ a.tz = 0}

ClientPollStart == PollStartWith(ClientPollArgs)

Next ==
    \/ SetCredentials
    \/ RegisterAccount
    \/ Login
    \/ FetchVerificationCode
    \/ ClientPollStart
    \/ PollAttempt
    \/ PollSleep

Spec == Init /\ [][Next]_vars

\* ----------------------------------------------------- poll_for_code alone
\* poll_for_code called again and again, with every argument, on a client in
\* each of the session states the calls before it can leave: a fresh
\* client, a registered address, a refused address, a logged-in session.
PollSession == Email(1, FallbackDomain)

PollSessions ==
    {[email |-> None, password |-> None, token |-> None, accounts |-> {},
      reg |-> "none", ever |-> FALSE],
     [email |-> PollSession, password |-> Password(1), token |-> None,
      accounts |-> {PollSession}, reg |-> "True", ever |-> FALSE],
     [email |-> PollSession, password |-> Password(1), token |-> None,
      accounts |-> {}, reg |-> "False", ever |-> FALSE],
     [email |-> PollSession, password |-> Password(1),
      token |-> <<"tok", PollSession>>, accounts |-> {PollSession},
      reg |-> "True", ever |-> TRUE]}

PollInit ==
    /\ \E s \in PollSessions :
        /\ email = s.email /\ password = s.password /\ token = s.token
        /\ accounts = s.accounts /\ reg = s.reg /\ everLoginTrue = s.ever
    /\ account_id = None
    /\ pc = "idle" /\ poll = NoPoll
    /\ op = "init" /\ ret = "None" /\ loginOut = "no"
    /\ stats = NoStats
    /\ probeIn = NoProbeIn /\ probeOut = NoProbeOut

PollNext == PollStart \/ PollAttempt \/ PollSleep

PollSpec == PollInit /\ [][PollNext]_vars

\* ------------------------------------------------- the inbox scan on its own
\* A logged-in client whose next fetch_verification_code call is given each
\* listing, since_time and zone in turn.
ProbeSession == Email(1, FallbackDomain)

ProbeInit ==
    /\ email = ProbeSession /\ password = Password(1)
    /\ account_id = None /\ token = <<"tok", ProbeSession>>
    /\ accounts = {ProbeSession}
    /\ pc = "idle" /\ poll = NoPoll
    /\ op = "login" /\ ret = "True" /\ loginOut = "True"
    /\ reg = "none"
    /\ stats = NoStats
    /\ everLoginTrue = TRUE
    /\ probeIn \in [list : ListResponses, since : SinceTimes, tz : TzOffsets]
    /\ probeOut = NoProbeOut

FetchProbe ==
    /\ pc = "idle" /\ ~probeOut.run
    /\ LET res == FetchCall(email, password, token, Exc(FALSE),
                            ScanInbox(probeIn.list, probeIn.since, probeIn.tz)) IN
        /\ token' = res.token
        /\ ret' = res.code
        /\ loginOut' = res.login
        /\ probeOut' = [run |-> TRUE, code |-> res.code, src |-> res.src,
                        requested |-> res.requested]
    /\ op' = "fetch"
    /\ UNCHANGED <<email, password, account_id, accounts, pc, poll, reg, stats,
                   everLoginTrue, probeIn>>

FetchSpec == ProbeInit /\ [][FetchProbe]_vars

\* --------------------------------------------- register_account on its own
\* register_account called again and again on a fresh client, each call
\* with its domain argument, the answer to GET /domains, the draw and the
\* answer to POST /accounts on record.  A 200/201 body is a JSON object
\* with an id ("id") or without one ("noid"), no content at all ("empty"),
\* or content that is not JSON ("badjson").
AccountResponses(exists) ==
    RegisterResponses(exists)
    \cup (IF exists THEN {} ELSE {Resp(s, "noid", TRUE) : s \in {200, 201}})

RegisterProbe ==
    /\ pc = "idle"
    /\ \E dom \in {"", ListedDomain}, k \in 1..NumRand :
       \E dr \in IF dom = "" THEN DomainResponses ELSE {Exc(FALSE)} :
        LET d == ResolveDomain(dom, dr)
            c == RegisterCall(d, k, Exc(FALSE), Session)
        IN \E r \in IF c.posted THEN AccountResponses(Email(k, d) \in accounts)
                     ELSE {Exc(FALSE)} :
            /\ RegisterUpdate(d, k, r)
            /\ probeIn' = [dom |-> dom, dr |-> dr, k |-> k, r |-> r]
            /\ probeOut' = [run |-> TRUE, old |-> Session,
                            posted |-> c.posted]

RegisterSpec == Init /\ [][RegisterProbe]_vars

\* ====================================================================
\* Properties
\* ====================================================================
Max(a, b) == IF a >= b THEN a ELSE b

\* A poll_for_code call has returned (or raised).
PollDone == op = "poll" /\ pc = "idle"

\* The login poll_for_code makes at line 209 failed.
PollLoginFailed == ~stats.hadToken /\ loginOut # "True"

\* No fetch cycle of the call found a code.
NoCodeFound == ret \notin CodeTokens

\* C1: a poll_for_code(timeout=T, interval=I) call with I > 0 never runs
\* more than floor(T/I) fetch cycles, and every cycle lists the inbox at
\* most once.
C1_AtMostFloorCycles ==
    (op = "poll" /\ stats.I > 0) =>
        /\ stats.cycles <= stats.T \div stats.I
        /\ stats.listings <= stats.cycles

\* A call that used all of its floor(T/I) >= 2 attempts.
C1_Witness ==
    /\ PollDone /\ ret = "None" /\ stats.I > 0
    /\ stats.cycles >= 2 /\ stats.cycles = stats.T \div stats.I

\* C2 as claimed: whenever no cycle finds a code the call returns None after
\* exactly floor(T/I) - 1 sleeps, whatever T, the session and the provider.
C2_AsClaimed ==
    (PollDone /\ NoCodeFound /\ stats.I > 0) =>
        (ret = "None" /\ stats.sleeps = stats.T \div stats.I - 1)

\* C2 amended: a call in which no cycle finds a code sleeps
\* max(floor(T/I) - 1, 0) times before it returns None when I > 0 and it got
\* past line 208-210; it does not sleep at all when its login fails or when
\* I = 0.
C2_SleepsBetweenAttempts ==
    (PollDone /\ NoCodeFound) =>
        IF PollLoginFailed THEN ret = "None" /\ stats.sleeps = 0
        ELSE IF stats.I = 0 THEN stats.sleeps = 0
        ELSE /\ ret = "None"
             /\ stats.sleeps = Max(stats.T \div stats.I - 1, 0)

\* A call that found nothing and slept twice, between its three attempts.
C2_Witness ==
    /\ PollDone /\ NoCodeFound /\ ~PollLoginFailed
    /\ stats.cycles = 3 /\ stats.sleeps = 2

\* C3 as claimed: whenever no cycle finds a code the call returns None and
\* has logged the timeout exactly once, whatever the session at its start.
C3_AsClaimed ==
    (PollDone /\ NoCodeFound /\ stats.I > 0) =>
        (ret = "None" /\ stats.timeouts = 1)

\* C3 amended: a call in which no cycle finds a code and that got past
\* line 208-210 with I > 0 returns None after all floor(T/I) attempts and
\* logs the timeout exactly once, at its end; a call whose login fails
\* returns None with no attempt and no timeout logged, and so does, raising,
\* a call with I = 0.
C3_TimeoutLoggedOnce ==
    /\ (op = "poll" /\ pc # "idle") => stats.timeouts = 0
    /\ (PollDone /\ NoCodeFound) =>
        IF PollLoginFailed
        THEN ret = "None" /\ stats.timeouts = 0 /\ stats.cycles = 0
        ELSE IF stats.I = 0
        THEN ret = "Raise" /\ stats.timeouts = 0 /\ stats.cycles = 0
        ELSE /\ ret = "None" /\ stats.timeouts = 1
             /\ stats.cycles = stats.T \div stats.I

\* A call that had no attempt to make (T < I) and logged its timeout, on a
\* session that had to log in first.
C3_Witness ==
    /\ PollDone /\ ret = "None" /\ ~stats.hadToken /\ loginOut = "True"
    /\ stats.I > stats.T /\ stats.timeouts = 1

\* ------------------------------------------------ the inbox scan (FetchSpec)
ProbeMsgs == probeIn.list.msgs

\* Message j of the listing has a createdAt that, cut to 6 fraction digits
\* and moved from UTC to the local zone, is earlier than since_time.
CreatedBeforeSince(j) ==
    /\ Len(probeIn.since) > 0
    /\ Len(ProbeMsgs[j].createdAt) = 2
    /\ MsgTime(ProbeMsgs[j].createdAt, probeIn.tz) < probeIn.since[1]

\* The code in message j: the extraction result of its text followed by its
\* html.
CodeIn(j) ==
    Extract(FieldText(ProbeMsgs[j].detail.text)
                \o FieldText(ProbeMsgs[j].detail.html))

\* Message j has an id, passes the since_time filter, has a 200 detail that
\* parses, and holds a code.
Eligible(j) ==
    /\ ProbeMsgs[j].hasId
    /\ ~CreatedBeforeSince(j)
    /\ ProbeMsgs[j].detail.kind = "ok"
    /\ CodeIn(j) # "None"

\* C4: with since_time set, fetch_verification_code requests no detail of a
\* message created before since_time and returns no code taken from one.
C4_NoStaleCode ==
    (probeOut.run /\ Len(probeIn.since) > 0) =>
        \A j \in 1..Len(ProbeMsgs) :
            CreatedBeforeSince(j) =>
                (j \notin probeOut.requested /\ probeOut.src # j)

\* A listing whose first message is too old and holds a code, and whose
\* second message gave the code that was returned.
C4_Witness ==
    /\ probeOut.run /\ Len(ProbeMsgs) >= 2
    /\ CreatedBeforeSince(1) /\ ProbeMsgs[1].hasId
    /\ ProbeMsgs[1].detail.kind = "ok" /\ CodeIn(1) # "None"
    /\ probeOut.src = 2 /\ probeOut.code # CodeIn(1)

\* C5: a code that fetch_verification_code returns is the code of the first
\* eligible message of the listing, text before html, and no detail of a
\* later message has been requested.
C5_FirstMatchWins ==
    (probeOut.run /\ probeOut.code # "None") =>
        /\ probeOut.src \in 1..Len(ProbeMsgs)
        /\ Eligible(probeOut.src)
        /\ probeOut.code = CodeIn(probeOut.src)
        /\ \A j \in 1..(probeOut.src - 1) : ~Eligible(j)
        /\ \A j \in probeOut.requested : j <= probeOut.src

\* Two eligible messages with different codes: the first one's code is
\* returned and the second is never requested.
C5_Witness ==
    /\ probeOut.run /\ Len(ProbeMsgs) >= 2
    /\ Eligible(1) /\ Eligible(2) /\ CodeIn(1) # CodeIn(2)
    /\ probeOut.code = CodeIn(1) /\ probeOut.requested = {1}

\* ------------------------------------------------------- the client (Spec)
\* C6: no public method lets an exception out.
C6_NeverRaises == ret # "Raise"

\* A login() call on the pair the last register_account call generated,
\* which the provider answered as it is meant to: with a token for an
\* address it holds, with 401 for one it does not.
LoginAfterRegister ==
    op = "login" /\ reg # "none" /\ loginOut \in {"True", "Refused"}

\* C7 as claimed: a login with the pair register_account generated succeeds
\* exactly when register_account returned True.
C7_AsClaimed ==
    LoginAfterRegister => ((loginOut = "True") <=> (reg = "True"))

\* C7 amended: when register_account returned True, a login with the pair
\* it generated succeeds; the provider never refuses that pair.
C7_RegisteredCanLogin ==
    (LoginAfterRegister /\ reg = "True") => loginOut = "True"

\* register_account returned True and the login that followed succeeded.
C7_Witness ==
    LoginAfterRegister /\ reg = "True" /\ ret = "True" /\ email \in accounts

\* C8: the token is set only if some login() of this client returned True.
C8_TokenOnlyAfterLogin == token # None => everLoginTrue

\* C9: email and password are both set or both unset.
C9_BothOrNeither == (email = None) <=> (password = None)

\* Both are set after a register_account call that failed, and after a
\* set_credentials call.
C9_Witness ==
    /\ email # None /\ password # None
    /\ \/ op = "register" /\ ret = "False"
       \/ op = "set_credentials"

\* C10 as claimed: email, password and account_id change only inside
\* register_account, token only inside login.
C10_AsClaimed ==
    [][/\ (email' # email \/ password' # password \/ account_id' # account_id)
            => op' = "register"
       /\ token' # token => loginOut' # "no"]_vars

\* C10 amended: email and password change only inside register_account and
\* set_credentials, account_id only inside register_account, token only
\* inside login, also when fetch_verification_code or poll_for_code calls it.
C10_MutationPoints ==
    [][/\ (email' # email \/ password' # password)
            => op' \in {"register", "set_credentials"}
       /\ account_id' # account_id => op' = "register"
       /\ token' # token => loginOut' # "no"]_vars

\* A fetch_verification_code call that logged in: the token is new, the
\* credentials and the account id are the ones register_account stored.
C10_Witness ==
    /\ op = "fetch" /\ loginOut = "True" /\ token = <<"tok", email>>
    /\ reg = "True" /\ account_id = <<"id", email>>

C14_NoCycleWithoutLogin ==
    (op = "poll" /\ PollLoginFailed) =>
        /\ pc = "idle" /\ ret = "None"
        /\ stats.cycles = 0 /\ stats.listings = 0 /\ stats.sleeps = 0

\* A call with attempts to make (floor(T/I) >= 2) on a session that holds
\* credentials but no token, ended by the failure of its login.
C14_Witness ==
    /\ PollDone /\ PollLoginFailed /\ ret = "None"
    /\ email # None /\ password # None
    /\ stats.I > 0 /\ stats.T \div stats.I >= 2 /\ stats.cycles = 0

\* C15: a login() call on a session whose email or password is missing
\* returns False without sending a request and changes no session field.
C15_NoRequestWithoutCredentials ==
    [][(op' = "login" /\ (~Truthy(email) \/ ~Truthy(password))) =>
        /\ ret' = "False" /\ loginOut' = "Unsent"
        /\ UNCHANGED <<email, password, account_id, token, accounts>>]_vars

\* A login() call that returned at line 104 on a session that has an
\* address and a token but no password.
C15_Witness ==
    /\ op = "login" /\ loginOut = "Unsent" /\ ret = "False"
    /\ Truthy(email) /\ ~Truthy(password) /\ Truthy(token)

\* C18: a token the session holds was issued for the session's current
\* address.
C18_TokenOfCurrentCredentials ==
    Truthy(token) => (token[2] = email /\ Valid(email, password))

\* C19: an account id the session holds is the id the provider returned
\* for the registration of the session's current address.
C19_AccountIdOfCurrentEmail ==
    account_id # None => account_id = <<"id", email>>

\* ------------------------------------------------ the inbox scan (FetchSpec)
\* Line 164-165 does not raise on message j: there is no since_time, or no
\* createdAt, or one that parses.
Parses(j) == ~(Len(probeIn.since) > 0 /\ Len(ProbeMsgs[j].createdAt) = 1)

\* The loop goes past message j: it has no id, or it is older than
\* since_time, or its detail is not a 200, or its detail holds no code.
Passed(j) ==
    \/ ~ProbeMsgs[j].hasId
    \/ /\ Parses(j)
       /\ \/ CreatedBeforeSince(j)
          \/ ProbeMsgs[j].detail.kind = "status"
          \/ ProbeMsgs[j].detail.kind = "ok" /\ CodeIn(j) = "None"

\* C16: when the detail of message j is answered with another status than
\* 200, the loop goes on: the code of the next eligible message k, with
\* only messages the loop goes past in between, is returned.
C16_Non200DetailSkipped ==
    probeOut.run =>
        \A j \in 1..Len(ProbeMsgs), k \in 1..Len(ProbeMsgs) :
            (/\ j < k
             /\ j \in probeOut.requested /\ ProbeMsgs[j].detail.kind = "status"
             /\ \A i \in (j + 1)..(k - 1) : Passed(i)
             /\ Eligible(k) /\ Parses(k))
            => (probeOut.code = CodeIn(k) /\ probeOut.src = k)

\* The detail of the first message was requested and answered with another
\* status than 200; the code returned is the one of the second message,
\* which is not older than the since_time the caller gave.
C16_Witness ==
    /\ probeOut.run /\ Len(ProbeMsgs) >= 2 /\ Len(probeIn.since) > 0
    /\ ProbeMsgs[1].detail.kind = "status" /\ probeOut.requested = {1, 2}
    /\ Eligible(2) /\ Len(ProbeMsgs[2].createdAt) = 2
    /\ probeOut.code = CodeIn(2) /\ probeOut.src = 2

\* ------------------------------------------------ poll_for_code (PollSpec)
\* C20 as claimed: when in some cycle of a poll_for_code call GET /messages
\* and the details are answered with 200 and the listing holds a message
\* with an id, not older than since_time, whose content holds a code, the
\* call returns a code at that cycle and runs no further cycle or sleep.
C20_AsClaimed ==
    (op = "poll" /\ stats.cycles >= 1 /\ stats.offer # "none") =>
        /\ pc = "idle" /\ ret \in CodeTokens
        /\ stats.cycles <= stats.T \div stats.I

\* C20 amended: the same when, besides, every message with an id that
\* comes before that message in the listing has a createdAt that is absent
\* or an ISO timestamp, or the caller gave no since_time.
C20_CodeEndsPoll ==
    (op = "poll" /\ stats.cycles >= 1 /\ stats.offer = "readable") =>
        /\ pc = "idle" /\ ret \in CodeTokens
        /\ stats.cycles <= stats.T \div stats.I

\* A call with three attempts to make that found the code in its second
\* cycle, after one sleep, and returned it without a third.
C20_Witness ==
    /\ PollDone /\ stats.offer = "readable" /\ ret \in CodeTokens
    /\ stats.T \div stats.I = 3 /\ stats.cycles = 2 /\ stats.sleeps = 1
    /\ stats.timeouts = 0

\* ------------------------------------------ register_account (RegisterSpec)
\* POST /accounts was answered with status 200 or 201.
Created == ~probeIn.r.exc /\ probeIn.r.status \in {200, 201}

\* The id field of the answer to POST /accounts: None when the body has
\* none.
IdField == IF probeIn.r.body = "id" THEN <<"id", email>> ELSE None

DiscoveryFailed ==
    \/ probeIn.dr.exc
    \/ probeIn.dr.status # 200
    \/ probeIn.dr.body \in {"badjson", "empty", "nodomain"}

\* C13: a register_account call without a domain whose domain discovery
\* fails does not raise: it generates the address with the fallback domain
\* and sends POST /accounts.
C13_FallbackDomain ==
    (probeOut.run /\ probeIn.dom = "" /\ DiscoveryFailed) =>
        /\ ret \in {"True", "False"}
        /\ probeOut.posted
        /\ email = Email(probeIn.k, FallbackDomain)
        /\ password = Password(probeIn.k)

\* GET /domains ended in a transport error and the address with the
\* fallback domain was registered.
C13_Witness ==
    /\ probeOut.run /\ probeIn.dom = "" /\ probeIn.dr.exc
    /\ ret = "True" /\ probeIn.r.made
    /\ email = Email(probeIn.k, FallbackDomain) /\ email \in accounts

\* The domain a call is to use: the caller's, the first listed one, the
\* fallback.
DomainToUse ==
    IF probeIn.dom # "" THEN probeIn.dom
    ELSE IF DiscoveryFailed THEN FallbackDomain ELSE ListedDomain

\* C17: after every register_account call, True or False, email and
\* password are the pair that call generated.
C17_CredentialsStored ==
    probeOut.run =>
        /\ email = Email(probeIn.k, DomainToUse)
        /\ password = Password(probeIn.k)

\* A call that returned False on a client that held another address: the
\* new pair is in the session, the provider does not know the address.
C17_Witness ==
    /\ probeOut.run /\ ret = "False"
    /\ probeOut.old.email # None /\ probeOut.old.email # email
    /\ email = Email(probeIn.k, DomainToUse) /\ password = Password(probeIn.k)
    /\ email \notin accounts
====
